---- MODULE Spec2Model ----
(***************************************************************************)
(* Model of scripts/generate-compose.py: the array-format normaliser       *)
(* (parse_array_config), the manifest assembler (generate_compose and its  *)
(* helpers) and the driver (main).                                         *)
(*                                                                         *)
(* Strings are sequences of tokens.  Wherever the code inspects the        *)
(* characters of a string (service names, network names, environment       *)
(* keys, the volume directory) the tokens are single characters; the       *)
(* literal fragments of the code's format strings are one token each.      *)
(* A Python dict of the input is a record (a key is present iff it is in   *)
(* the record's DOMAIN); a dict the program builds is an insertion-ordered *)
(* sequence of <<key, value>> pairs.                                       *)
(*                                                                         *)
(* Of a service entry the model keeps image, networks, environment,        *)
(* secrets, healthcheck and deploy.{replicas, labels, update_config,       *)
(* resources}; the volumes, placement, logging, restart_policy and         *)
(* rollback_config parts of the manifest are left out.                     *)
(***************************************************************************)
EXTENDS Integers, Sequences, FiniteSets, TLC

VARIABLES pc, args, config_array, k, parsed, config, opts, i, compose,
          output, error, run, previous

vars == <<pc, args, config_array, k, parsed, config, opts, i, compose,
          output, error, run, previous>>

(***************************************************************************)
(* Bounds of the model.                                                    *)
(***************************************************************************)
MaxServices == 2

(***************************************************************************)
(* Strings.                                                                *)
(***************************************************************************)
None == <<"<None>">>

Upper == <<"A","B","C","D","E","F","G","H","I","J","K","L","M",
           "N","O","P","Q","R","S","T","U","V","W","X","Y","Z">>

LowerOf == <<"a","b","c","d","e","f","g","h","i","j","k","l","m",
             "n","o","p","q","r","s","t","u","v","w","x","y","z">>

LowerChar(c) ==
    IF \E n \in 1..Len(Upper) : Upper[n] = c
    THEN LowerOf[CHOOSE n \in 1..Len(Upper) : Upper[n] = c]
    ELSE c

\* str.lower()
Lower(s) == [n \in 1..Len(s) |-> LowerChar(s[n])]

\* sub in s
Contains(s, sub) ==
    \E n \in 0..(Len(s) - Len(sub)) :
        \A m \in 1..Len(sub) : s[n + m] = sub[m]

\* s.startswith(pre)
StartsWith(s, pre) ==
    /\ Len(pre) <= Len(s)
    /\ \A m \in 1..Len(pre) : s[m] = pre[m]

\* str.replace('_', '-')
ReplaceUnderscore(s) == [n \in 1..Len(s) |-> IF s[n] = "_" THEN "-" ELSE s[n]]

IsSpace(c) == c \in {" ", "\t", "\n"}

RECURSIVE LStrip(_)
LStrip(s) == IF s # <<>> /\ IsSpace(Head(s)) THEN LStrip(Tail(s)) ELSE s

RECURSIVE RStrip(_)
RStrip(s) ==
    IF s # <<>> /\ IsSpace(s[Len(s)]) THEN RStrip(SubSeq(s, 1, Len(s) - 1)) ELSE s

\* str.strip()
Strip(s) == RStrip(LStrip(s))

Digit == <<"0","1","2","3","4","5","6","7","8","9">>

\* str(n) of a non-negative integer
RECURSIVE IntToStr(_)
IntToStr(n) ==
    IF n < 10 THEN <<Digit[n + 1]>>
    ELSE IntToStr(n \div 10) \o <<Digit[(n % 10) + 1]>>

\* f'{x}' of a value that may be None
Fmt(x) == IF x = None THEN <<"N","o","n","e">> ELSE x

\* Python truthiness of an optional string
Truthy(x) == x # None /\ x # <<>>

\* ",".join(parts)
RECURSIVE Join(_)
Join(parts) ==
    IF parts = <<>> THEN <<>>
    ELSE IF Len(parts) = 1 THEN parts[1]
    ELSE parts[1] \o <<",">> \o Join(Tail(parts))

(***************************************************************************)
(* Dicts the program builds: insertion-ordered <<key, value>> pairs.       *)
(***************************************************************************)
DictHas(d, key) == \E n \in 1..Len(d) : d[n][1] = key

DictGet(d, key, default) ==
    IF DictHas(d, key)
    THEN d[CHOOSE n \in 1..Len(d) : d[n][1] = key][2]
    ELSE default

\* d[key] = value: an existing key keeps its position
DictSet(d, key, value) ==
    IF DictHas(d, key)
    THEN [n \in 1..Len(d) |-> IF d[n][1] = key THEN <<key, value>> ELSE d[n]]
    ELSE Append(d, <<key, value>>)

DictKeys(d) == [n \in 1..Len(d) |-> d[n][1]]

\* {} as a record
EmptyDict == [key \in {} |-> TRUE]

\* None where the other values are records
NoneRec == [none |-> TRUE]

\* svc.get(key, default) on an input record
Get(rec, key, default) == IF key \in DOMAIN rec THEN rec[key] ELSE default

Range(s) == {s[n] : n \in 1..Len(s)}

\* The orders in which list(a_set) may enumerate a set of strings: the
\* iteration order of a Python set of str depends on the per-process hash seed.
ListOf(S) ==
    {s \in [1..Cardinality(S) -> S] : \A a, b \in 1..Cardinality(S) : a # b => s[a] # s[b]}

(***************************************************************************)
(* String constants of the program.                                        *)
(***************************************************************************)
worker == <<"w","o","r","k","e","r">>
job == <<"j","o","b">>
api == <<"a","p","i">>
backend == <<"b","a","c","k","e","n","d">>
database == <<"d","a","t","a","b","a","s","e">>
traefik_public == <<"t","r","a","e","f","i","k","-","p","u","b","l","i","c">>
shared_ == <<"s","h","a","r","e","d","-">>
external_ == <<"e","x","t","e","r","n","a","l","-">>
_db == <<"-","d","b">>
prod == <<"p","r","o","d">>
example_com == <<"example.com">>
data_dir == <<"/","d","a","t","a">>
rolling == <<"rolling">>
nginx_latest == <<"nginx:latest">>

\* 'worker' in name.lower() or 'job' in name.lower()
LowerHasWorkerOrJob(name) ==
    Contains(Lower(name), worker) \/ Contains(Lower(name), job)

(***************************************************************************)
(* parse_array_config                                                      *)
(***************************************************************************)
GlobalKeys ==
    {"replicas", "env", "fqdn", "health_checks", "resource_limits",
     "volume_persistence", "volume_dir", "enable_retry", "enable_rate_limit",
     "enable_monitoring", "enable_network_separation", "deployment_strategy",
     "use_secrets", "enable_logging"}

DefaultGlobalConfig ==
    [replicas |-> 1, env |-> prod, fqdn |-> example_com,
     health_checks |-> TRUE, resource_limits |-> TRUE,
     volume_persistence |-> FALSE, volume_dir |-> data_dir,
     enable_retry |-> FALSE, enable_rate_limit |-> FALSE,
     enable_monitoring |-> FALSE, enable_network_separation |-> FALSE,
     deployment_strategy |-> rolling, use_secrets |-> FALSE,
     enable_logging |-> TRUE]

\* The locals of parse_array_config before its loop.
ParseLocals ==
    [services |-> <<>>, images |-> <<>>, domains |-> <<>>, ports |-> <<>>,
     service_envs |-> <<>>, service_configs |-> <<>>,
     service_resources |-> <<>>, service_secrets |-> <<>>,
     health_urls |-> <<>>, retry_config |-> <<>>, rate_limit_config |-> <<>>,
     metrics_paths |-> <<>>, advanced_health |-> <<>>,
     global_config |-> DefaultGlobalConfig, external_networks |-> {}]

\* The normaliser's test for "this service contributes a domain and a port".
NormaliserExposed(svc) ==
    Get(svc, "expose", TRUE) /\ ~LowerHasWorkerOrJob(svc.service_name)

\* domains after one service
DomainsAfter(domains, svc) ==
    IF NormaliserExposed(svc)
    THEN IF "domain" \in DOMAIN svc THEN Append(domains, svc.domain)
         ELSE IF "port" \in DOMAIN svc
              THEN Append(domains, ReplaceUnderscore(svc.service_name))
              ELSE domains
    ELSE domains

\* ports after one service
PortsAfter(ports, svc) ==
    IF NormaliserExposed(svc) /\ "port" \in DOMAIN svc
    THEN Append(ports, IntToStr(svc.port))
    ELSE ports

\* svc_config of one service: expose, networks, internal_port when given
SvcConfigOf(svc) ==
    [key \in ({"expose", "networks", "internal_port"} \cap DOMAIN svc) |->
        IF key = "internal_port" THEN IntToStr(svc[key]) ELSE svc[key]]

\* the external-network test applied to one declared network name
MatchesExternalPattern(net) ==
    Contains(net, shared_) \/ Contains(net, external_) \/ Contains(net, _db)

ExternalNetworksAfter(external_networks, svc) ==
    IF "networks" \in DOMAIN svc
    THEN external_networks \cup
             {net \in Range(svc.networks) : MatchesExternalPattern(net)}
    ELSE external_networks

\* service_x[name] = svc[key] when the key is given
SetIfGiven(d, svc, key) ==
    IF key \in DOMAIN svc THEN DictSet(d, svc.service_name, svc[key]) ELSE d

\* A variant in which the first service to set a key wins.
GlobalConfigFirstWins(global_config, svc) ==
    [key \in GlobalKeys |->
        IF key \in DOMAIN svc /\ global_config[key] = DefaultGlobalConfig[key]
        THEN svc[key] ELSE global_config[key]]

GlobalConfigAfter(global_config, svc) ==
    [key \in GlobalKeys |->
        IF key \in DOMAIN svc THEN svc[key] ELSE global_config[key]]

\* One iteration of the loop over config_array, for a service with a name
\* and an image.
ParseOne(p, svc) ==
    [services |-> Append(p.services, svc.service_name),
     images |-> DictSet(p.images, svc.service_name, svc.image),
     domains |-> DomainsAfter(p.domains, svc),
     ports |-> PortsAfter(p.ports, svc),
     service_envs |-> SetIfGiven(p.service_envs, svc, "environment"),
     service_configs |->
        IF DOMAIN SvcConfigOf(svc) # {}
        THEN DictSet(p.service_configs, svc.service_name, SvcConfigOf(svc))
        ELSE p.service_configs,
     service_resources |-> SetIfGiven(p.service_resources, svc, "resources"),
     service_secrets |-> SetIfGiven(p.service_secrets, svc, "secrets"),
     health_urls |->
        Append(p.health_urls, Get(svc, "health_url", <<"/health">>)),
     retry_config |-> SetIfGiven(p.retry_config, svc, "retry"),
     rate_limit_config |-> SetIfGiven(p.rate_limit_config, svc, "rate_limit"),
     metrics_paths |-> SetIfGiven(p.metrics_paths, svc, "metrics_path"),
     advanced_health |-> SetIfGiven(p.advanced_health, svc, "health_check"),
     global_config |-> GlobalConfigAfter(p.global_config, svc),
     external_networks |-> ExternalNetworksAfter(p.external_networks, svc)]

\* any(service_configs.get(s, {}).get('expose', True) for s in services)
AnyExposeDefaultTrue(p) ==
    \E n \in 1..Len(p.services) :
        Get(DictGet(p.service_configs, p.services[n], EmptyDict), "expose", TRUE)

\* external_networks with the three implicit names discarded
WithoutImplicit(external_networks) ==
    external_networks \ {traefik_public, backend, database}

\* The dict parse_array_config returns, for one enumeration order of the set.
ParseResult(p, ext_list) ==
    [services |-> p.services,
     images |-> p.images,
     domains |->
        IF p.domains = <<>> /\ AnyExposeDefaultTrue(p)
        THEN << <<"a","p","p">> >> ELSE p.domains,
     ports |->
        IF p.ports = <<>> /\ AnyExposeDefaultTrue(p)
        THEN << <<"8","0","8","0">> >> ELSE p.ports,
     service_envs |-> p.service_envs,
     service_configs |-> p.service_configs,
     service_resources |-> p.service_resources,
     service_secrets |-> p.service_secrets,
     health_urls |-> p.health_urls,
     external_networks |-> ext_list,
     retry_config |-> p.retry_config,
     rate_limit_config |-> p.rate_limit_config,
     metrics_paths |-> p.metrics_paths,
     advanced_health |-> p.advanced_health]
    @@ p.global_config

(***************************************************************************)
(* generate_networks                                                       *)
(***************************************************************************)
External == [external |-> TRUE]

Overlay == [driver |-> <<"overlay">>, internal |-> TRUE, encrypted |-> TRUE]

RECURSIVE AddExternal(_, _)
AddExternal(networks, nets) ==
    IF nets = <<>> THEN networks
    ELSE AddExternal(DictSet(networks, Head(nets), External), Tail(nets))

generate_networks(services, enable_network_separation, external_networks) ==
    LET ext == AddExternal(<< <<traefik_public, External>> >>, external_networks)
        withBackend ==
            IF \E n \in 1..Len(services) :
                   services[n] \in {api, worker, backend}
            THEN DictSet(ext, backend, Overlay) ELSE ext
        withDatabase ==
            IF \E n \in 1..Len(services) :
                   services[n] \in {<<"d","b">>, database,
                                    <<"p","o","s","t","g","r","e","s">>,
                                    <<"m","y","s","q","l">>}
            THEN DictSet(withBackend, database, Overlay) ELSE withBackend
    IN  IF ~enable_network_separation THEN ext ELSE withDatabase

(***************************************************************************)
(* generate_resource_limits, generate_update_config, generate_healthcheck  *)
(***************************************************************************)
Limits(cpus, memory) == [limits |-> [cpus |-> cpus, memory |-> memory]]

generate_resource_limits(service_name, service_resources, default_limits) ==
    IF service_resources # <<>> /\ DictHas(service_resources, service_name)
    THEN DictGet(service_resources, service_name, NoneRec)
    ELSE IF ~default_limits THEN NoneRec
    ELSE IF Contains(service_name, worker) \/ Contains(service_name, job)
         THEN Limits(<<"1.0">>, <<"1G">>)
    ELSE IF Contains(service_name, api) \/ Contains(service_name, backend)
         THEN Limits(<<"2.0">>, <<"2G">>)
    ELSE Limits(<<"0.5">>, <<"512M">>)

generate_update_config(env, strategy) ==
    IF strategy = rolling
    THEN [parallelism |-> IF env = prod THEN 1 ELSE 2,
          delay |-> IF env = prod THEN <<"30s">> ELSE <<"10s">>,
          failure_action |-> <<"rollback">>,
          monitor |-> IF env = prod THEN <<"5m">> ELSE <<"30s">>,
          max_failure_ratio |-> IF env = prod THEN <<"0.1">> ELSE <<"0.3">>,
          order |-> <<"stop-first">>]
    ELSE IF strategy = <<"blue-green">>
    THEN [parallelism |-> 999, delay |-> <<"0s">>,
          failure_action |-> <<"rollback">>, monitor |-> <<"5m">>,
          max_failure_ratio |-> <<"0.0">>, order |-> <<"start-first">>]
    ELSE [parallelism |-> 1, delay |-> <<"5m">>,
          failure_action |-> <<"pause">>, monitor |-> <<"10m">>,
          max_failure_ratio |-> <<"0.1">>, order |-> <<"start-first">>]

generate_healthcheck(port, health_url, service_name, advanced_health) ==
    IF advanced_health # <<>> /\ DictHas(advanced_health, service_name)
    THEN DictGet(advanced_health, service_name, NoneRec)
    ELSE [test |-> << <<"CMD">>, <<"curl">>, <<"-f">>,
                      <<"http://localhost:">> \o port \o health_url >>,
          interval |-> <<"30s">>, timeout |-> <<"10s">>, retries |-> 5,
          start_period |-> <<"60s">>]

(***************************************************************************)
(* generate_compose: one iteration of the loop over services.              *)
(* o holds the function's arguments, n is the 1-based position (i + 1).    *)
(***************************************************************************)
\* svc_config = service_configs.get(svc, {}) if service_configs else {}
SvcConfig(o, svc) == DictGet(o.service_configs, svc, EmptyDict)

\* is_exposed as the assembler resolves it
IsExposed(svc, svc_config) ==
    IF ~Get(svc_config, "expose", TRUE)
       \/ Contains(Lower(svc), worker) \/ Contains(Lower(svc), job)
    THEN Get(svc_config, "expose", FALSE)
    ELSE Get(svc_config, "expose", TRUE)

\* is_exposed and i < len(domains) and i < len(ports)
HasRoute(o, n, is_exposed) ==
    is_exposed /\ n <= Len(o.domains) /\ n <= Len(o.ports)

DomainOf(o, n, is_exposed) ==
    IF HasRoute(o, n, is_exposed) THEN o.domains[n] ELSE None

PortOf(o, n, is_exposed) ==
    IF HasRoute(o, n, is_exposed) THEN o.ports[n] ELSE None

FqdnFull(domain, env, fqdn) ==
    IF env = prod THEN domain \o <<".">> \o fqdn
    ELSE domain \o <<"-">> \o env \o <<".">> \o fqdn

FqdnOf(o, n, is_exposed) ==
    IF HasRoute(o, n, is_exposed)
    THEN FqdnFull(o.domains[n], o.env, o.fqdn) ELSE None

\* the default network assignment of a service with no explicit list
DefaultNetworks(svc, is_exposed, enable_network_separation) ==
    (IF is_exposed THEN <<traefik_public>> ELSE <<>>)
    \o (IF ~enable_network_separation THEN <<>>
        ELSE IF svc \in {api, backend} \/ Contains(Lower(svc), api)
             THEN <<backend>>
        ELSE IF svc \in {worker, job} \/ Contains(Lower(svc), worker)
                \/ Contains(Lower(svc), job)
             THEN <<backend>>
        ELSE <<>>)

ServiceNetworks(svc, svc_config, is_exposed, enable_network_separation) ==
    LET chosen ==
            IF "networks" \in DOMAIN svc_config THEN svc_config.networks
            ELSE DefaultNetworks(svc, is_exposed, enable_network_separation)
    IN  IF chosen # <<>> THEN chosen
        ELSE IF is_exposed THEN <<traefik_public>>
        ELSE IF enable_network_separation THEN <<backend>>
        ELSE <<traefik_public>>

\* The backquote character of the host rule (not writable in a string here).
BT == "[backquote]"

Router(svc) == <<"traefik.", "http.routers.">> \o svc

Middleware(svc, kind) == <<"traefik.", "http.middlewares.">> \o svc \o kind

BaseRoutingLabels(svc, fqdn_full, port) ==
    << <<"traefik.", "enable=true">>,
       <<"traefik.", "swarm.network=traefik-public">>,
       Router(svc) \o <<".rule=Host(", BT>> \o fqdn_full \o <<BT, ")">>,
       Router(svc) \o <<".entrypoints=websecure">>,
       Router(svc) \o <<".tls=true">>,
       Router(svc) \o <<".tls.certresolver=cloudflare">>,
       <<"traefik.", "http.services.">> \o svc
           \o <<".loadbalancer.server.port=">> \o port,
       Router(svc) \o <<".service=">> \o svc >>

RetryLabels(o, svc) ==
    LET cfg == DictGet(o.retry_config, svc, EmptyDict)
    IN  << Middleware(svc, <<"-retry.retry.attempts=">>)
               \o IntToStr(Get(cfg, "attempts", 3)),
           Middleware(svc, <<"-retry.retry.initialinterval=">>)
               \o Get(cfg, "interval", <<"100ms">>) >>

RateLimitLabels(o, svc) ==
    LET cfg == DictGet(o.rate_limit_config, svc, EmptyDict)
    IN  << Middleware(svc, <<"-ratelimit.ratelimit.average=">>)
               \o IntToStr(Get(cfg, "average", 100)),
           Middleware(svc, <<"-ratelimit.ratelimit.burst=">>)
               \o IntToStr(Get(cfg, "burst", 50)) >>

Middlewares(o, svc) ==
    << <<"secureHeaders@file">> >>
    \o (IF o.enable_retry THEN << svc \o <<"-retry">> >> ELSE <<>>)
    \o (IF o.enable_rate_limit THEN << svc \o <<"-ratelimit">> >> ELSE <<>>)

\* the labels added under "if is_exposed and port and fqdn_full"
RoutingLabels(o, svc, fqdn_full, port) ==
    BaseRoutingLabels(svc, fqdn_full, port)
    \o (IF o.enable_retry THEN RetryLabels(o, svc) ELSE <<>>)
    \o (IF o.enable_rate_limit THEN RateLimitLabels(o, svc) ELSE <<>>)
    \o << Router(svc) \o <<".middlewares=">> \o Join(Middlewares(o, svc)) >>

MonitoringLabels(o, svc, svc_config, port) ==
    << <<"prometheus.io/", "scrape=true">>,
       <<"prometheus.io/", "port=">>
           \o (IF Truthy(port) THEN port
               ELSE Get(svc_config, "internal_port", <<"8","0","8","0">>)),
       <<"prometheus.io/", "path=">>
           \o DictGet(o.metrics_paths, svc, <<"/metrics">>),
       <<"prometheus.io/", "job=">> \o svc,
       <<"service.name=">> \o svc >>

Labels(o, svc, svc_config, is_exposed, port, fqdn_full) ==
    (IF is_exposed /\ Truthy(port) /\ Truthy(fqdn_full)
     THEN RoutingLabels(o, svc, fqdn_full, port) ELSE <<>>)
    \o (IF o.enable_monitoring
        THEN MonitoringLabels(o, svc, svc_config, port) ELSE <<>>)

\* any(sensitive in key.lower() for sensitive in [...])
IsSensitiveKey(key) ==
    \E sensitive \in {<<"p","a","s","s","w","o","r","d">>,
                      <<"s","e","c","r","e","t">>,
                      <<"k","e","y">>,
                      <<"t","o","k","e","n">>} :
        Contains(Lower(key), sensitive)

\* The mount of an environment entry turned into a secret (mode 0o400).
EnvSecretMount(svc, key) ==
    [source |-> svc \o <<"_">> \o Lower(key),
     target |-> <<"/run/secrets/">> \o Lower(key),
     mode |-> 256]

\* The loop over custom_env.items().  acc holds config['environment'],
\* config['secrets'] (<<>> while the key is not set) and compose['secrets'].
RECURSIVE AddCustomEnv(_, _, _, _)
AddCustomEnv(acc, svc, entries, as_secret) ==
    IF entries = <<>> THEN acc
    ELSE LET key == Head(entries)[1]
             value == Head(entries)[2]
             next ==
                 IF as_secret /\ IsSensitiveKey(key)
                 THEN [environment |->
                           Append(acc.environment,
                                  key \o <<"_FILE=", "/run/secrets/">> \o Lower(key)),
                       secrets |-> Append(acc.secrets, EnvSecretMount(svc, key)),
                       top |-> DictSet(acc.top, svc \o <<"_">> \o Lower(key), External)]
                 ELSE [environment |->
                           Append(acc.environment, key \o <<"=">> \o value),
                       secrets |-> acc.secrets,
                       top |-> acc.top]
         IN  AddCustomEnv(next, svc, Tail(entries), as_secret)

\* secret_config of a structured secret declaration
SecretConfig(secret) ==
    LET secret_name == Get(secret, "source", Get(secret, "name", None))
    IN  [key \in ({"source", "target"} \cup ({"mode", "uid", "gid"} \cap DOMAIN secret)) |->
            IF key = "source" THEN secret_name
            ELSE IF key = "target"
                 THEN Get(secret, "target", <<"/run/secrets/">> \o Fmt(secret_name))
            ELSE secret[key]]

\* The loop over service_secrets[svc]; each element is tagged with its Python
\* type (kind "str" with its text, or "dict" with its value).  It is entered only when compose has a
\* 'secrets' key.  A bare name in config['secrets'] is written [short |-> name].
RECURSIVE AddDeclaredSecrets(_, _)
AddDeclaredSecrets(acc, secrets) ==
    IF secrets = <<>> THEN acc
    ELSE LET secret == Head(secrets)
             next ==
                 IF secret.kind = "str"
                 THEN [acc EXCEPT
                         !.secrets = Append(@, [short |-> secret.text]),
                         !.top = DictSet(@, secret.text, External)]
                 ELSE [acc EXCEPT
                         !.secrets = Append(@, SecretConfig(secret.value)),
                         !.top = DictSet(@, SecretConfig(secret.value).source, External)]
         IN  AddDeclaredSecrets(next, Tail(secrets))

\* url = health_urls[i % len(health_urls)].strip() if i < len(health_urls) else '/health'
HealthUrl(health_urls, n) ==
    IF n - 1 < Len(health_urls)
    THEN Strip(health_urls[((n - 1) % Len(health_urls)) + 1])
    ELSE <<"/health">>

\* Whether the iteration for services[n] raises KeyError: a declared secret is
\* registered in compose['secrets'], which exists only when use_secrets is set.
RaisesKeyError(c, o, n) ==
    LET svc == Strip(o.services[n])
    IN  /\ "secrets" \notin DOMAIN c
        /\ o.service_secrets # <<>>
        /\ DictHas(o.service_secrets, svc)
        /\ DictGet(o.service_secrets, svc, <<>>) # <<>>

\* compose after the iteration for services[n] (when it does not raise).
AssembleService(c, o, n) ==
    LET svc == Strip(o.services[n])
        svc_config == SvcConfig(o, svc)
        is_exposed == IsExposed(svc, svc_config)
        port == PortOf(o, n, is_exposed)
        fqdn_full == FqdnOf(o, n, is_exposed)
        env0 == [environment |->
                    << <<"SERVICE_NAME=">> \o svc,
                       <<"ENVIRONMENT=">> \o o.env,
                       <<"DOMAIN=">> \o Fmt(fqdn_full) >>,
                 secrets |-> <<>>,
                 top |-> IF "secrets" \in DOMAIN c THEN c.secrets ELSE <<>>]
        env1 == AddCustomEnv(env0, svc, DictGet(o.service_envs, svc, <<>>),
                             o.use_secrets /\ o.env = prod)
        env2 == IF o.service_secrets # <<>> /\ DictHas(o.service_secrets, svc)
                THEN AddDeclaredSecrets(env1, DictGet(o.service_secrets, svc, <<>>))
                ELSE env1
        resources ==
            IF o.resource_limits \/ o.service_resources # <<>>
            THEN generate_resource_limits(svc, o.service_resources, o.resource_limits)
            ELSE NoneRec
        deploy ==
            (IF resources # NoneRec THEN [resources |-> resources] ELSE EmptyDict)
            @@ [replicas |-> o.replicas,
                labels |-> Labels(o, svc, svc_config, is_exposed, port, fqdn_full),
                update_config |-> generate_update_config(o.env, o.deployment_strategy)]
        entry ==
            (IF env2.secrets # <<>> THEN [secrets |-> env2.secrets] ELSE EmptyDict)
            @@ (IF o.health_enabled
                THEN [healthcheck |->
                        generate_healthcheck(
                            IF Truthy(port) THEN port
                            ELSE Get(svc_config, "internal_port", <<"8","0","8","0">>),
                            HealthUrl(o.health_urls, n), svc, o.advanced_health)]
                ELSE EmptyDict)
            @@ [image |-> DictGet(o.images, svc, nginx_latest),
                networks |-> ServiceNetworks(svc, svc_config, is_exposed,
                                             o.enable_network_separation),
                environment |-> env2.environment,
                deploy |-> deploy]
    IN  (IF "secrets" \in DOMAIN c THEN [secrets |-> env2.top] ELSE EmptyDict)
        @@ [version |-> c.version,
            services |-> DictSet(c.services, svc, entry),
            networks |-> c.networks]

\* compose before the loop
ComposeSkeleton(o) ==
    (IF o.use_secrets THEN [secrets |-> <<>>] ELSE EmptyDict)
    @@ [version |-> <<"3.8">>,
        services |-> <<>>,
        networks |-> generate_networks(o.services, o.enable_network_separation,
                                       o.external_networks)]

(***************************************************************************)
(* main                                                                    *)
(***************************************************************************)
\* s.split(',')
RECURSIVE Split(_)
Split(s) ==
    IF \E n \in 1..Len(s) : s[n] = ","
    THEN LET n == CHOOSE m \in 1..Len(s) :
                      s[m] = "," /\ \A j \in 1..(m - 1) : s[j] # ","
         IN  <<SubSeq(s, 1, n - 1)>> \o Split(SubSeq(s, n + 1, Len(s)))
    ELSE <<s>>

\* The parser's defaults: the value of args when no option is given besides
\* --config-file.
DefaultArgs ==
    [config_file |-> TRUE, services |-> None, images |-> NoneRec,
     domains |-> None, fqdn |-> None, replicas |-> 1, ports |-> None,
     env |-> prod, health_checks |-> FALSE, resource_limits |-> FALSE,
     volume_persistence |-> FALSE, volume_dir |-> data_dir,
     health_urls |-> <<"/health">>,
     enable_retry |-> FALSE, enable_rate_limit |-> FALSE,
     enable_monitoring |-> FALSE, enable_logging |-> TRUE,
     enable_network_separation |-> FALSE, deployment_strategy |-> rolling,
     use_secrets |-> FALSE, external_networks |-> <<>>]

\* main's locals after "Extract values from config, with command-line
\* overrides".
MergeConfig(a, cfg) ==
    [services |-> cfg.services,
     images |-> cfg.images,
     domains |-> cfg.domains,
     replicas |-> IF a.replicas # 1 THEN a.replicas ELSE cfg.replicas,
     ports |-> IF Truthy(a.ports) THEN Split(a.ports) ELSE cfg.ports,
     env |-> IF a.env # prod THEN a.env ELSE cfg.env,
     fqdn |-> IF Truthy(a.fqdn) THEN a.fqdn ELSE cfg.fqdn,
     health_enabled |-> a.health_checks \/ cfg.health_checks,
     resource_limits |-> a.resource_limits \/ cfg.resource_limits,
     volume_persistence |-> a.volume_persistence \/ cfg.volume_persistence,
     enable_retry |-> a.enable_retry \/ cfg.enable_retry,
     enable_rate_limit |-> a.enable_rate_limit \/ cfg.enable_rate_limit,
     enable_monitoring |-> a.enable_monitoring \/ cfg.enable_monitoring,
     enable_logging |-> IF ~a.enable_logging THEN a.enable_logging
                        ELSE cfg.enable_logging,
     enable_network_separation |->
        a.enable_network_separation \/ cfg.enable_network_separation,
     use_secrets |-> a.use_secrets \/ cfg.use_secrets,
     volume_dir |-> IF a.volume_dir # data_dir THEN a.volume_dir
                    ELSE cfg.volume_dir,
     health_urls |-> cfg.health_urls,
     deployment_strategy |->
        IF a.deployment_strategy # rolling THEN a.deployment_strategy
        ELSE cfg.deployment_strategy,
     service_envs |-> cfg.service_envs,
     service_configs |-> cfg.service_configs,
     external_networks |->
        IF a.external_networks # <<>> THEN a.external_networks
        ELSE cfg.external_networks,
     service_secrets |-> cfg.service_secrets,
     service_resources |-> cfg.service_resources,
     advanced_health |-> cfg.advanced_health,
     retry_config |-> cfg.retry_config,
     rate_limit_config |-> cfg.rate_limit_config,
     metrics_paths |-> cfg.metrics_paths]

\* main's locals after "Parse from command line arguments" (no configuration
\* file).  The value of --images is [json |-> d], d the dict its JSON text
\* denotes; the JSON options left at '{}' give empty dicts.
CommandLineConfig(a) ==
    [services |-> Split(a.services),
     images |-> a.images.json,
     domains |-> Split(a.domains),
     replicas |-> a.replicas,
     ports |-> Split(a.ports),
     env |-> a.env,
     fqdn |-> a.fqdn,
     health_enabled |-> a.health_checks,
     resource_limits |-> a.resource_limits,
     volume_persistence |-> a.volume_persistence,
     enable_retry |-> a.enable_retry,
     enable_rate_limit |-> a.enable_rate_limit,
     enable_monitoring |-> a.enable_monitoring,
     enable_logging |-> a.enable_logging,
     enable_network_separation |-> a.enable_network_separation,
     use_secrets |-> a.use_secrets,
     volume_dir |-> a.volume_dir,
     health_urls |-> Split(a.health_urls),
     deployment_strategy |-> a.deployment_strategy,
     service_envs |-> <<>>,
     service_configs |-> <<>>,
     external_networks |-> a.external_networks,
     service_secrets |-> <<>>,
     service_resources |-> <<>>,
     advanced_health |-> <<>>,
     retry_config |-> <<>>,
     rate_limit_config |-> <<>>,
     metrics_paths |-> <<>>]

\* The exception "Parse from command line arguments" raises on an option
\* that was not given (None has no split, json.loads rejects None); "" when
\* it raises none.
CommandLineException(a) ==
    IF a.services = None THEN "AttributeError: args.services.split"
    ELSE IF a.images = NoneRec THEN "TypeError: json.loads(args.images)"
    ELSE IF a.domains = None THEN "AttributeError: args.domains.split"
    ELSE IF a.ports = None THEN "AttributeError: args.ports.split"
    ELSE ""

\* has_exposed of the validation step
HasExposed(o) ==
    \E n \in 1..Len(o.services) :
        /\ ~LowerHasWorkerOrJob(o.services[n])
        /\ Get(DictGet(o.service_configs, o.services[n], EmptyDict), "expose", TRUE)

\* The diagnostic of "Validate inputs", or "" when validation passes.
ValidationError(a, o) ==
    IF /\ ~a.config_file
       /\ \/ ~Truthy(a.services) \/ a.images = NoneRec \/ ~Truthy(a.domains)
          \/ ~Truthy(a.fqdn) \/ ~Truthy(a.ports)
    THEN "When not using --config-file, the following arguments are required"
    ELSE IF o.services = <<>> THEN "Services are required"
    ELSE IF a.config_file /\ HasExposed(o) /\ (o.domains = <<>> \/ o.ports = <<>>)
         THEN "Domains and ports are required for exposed services"
    ELSE IF ~a.config_file /\ (o.domains = <<>> \/ o.ports = <<>>)
         THEN "Services, domains, and ports are required"
    ELSE IF o.volume_dir # <<>> /\ ~StartsWith(o.volume_dir, <<"/">>)
         THEN "volume_dir must be an absolute path"
    ELSE ""

(***************************************************************************)
(* The inputs: configuration arrays of at most MaxServices services.       *)
(***************************************************************************)
api_ws == <<" ">> \o api
web_ui == <<"w","e","b","_","u","i">>
Job == <<"J","o","b">>

\* Each name has a port and a domain of its own.
PortFor(name) ==
    CASE name = api -> 8080
      [] name = api_ws -> 8081
      [] name = web_ui -> 3000
      [] name = worker -> 9000
      [] OTHER -> 9001

DomainFor(name) == <<"d", "-">> \o Strip(Lower(name))

Base(name) == [service_name |-> name, image |-> <<"img/">> \o name]

\* Declarations that vary exposure, port and domain.
RoutingDeclsOf(name) ==
    {Base(name) @@ e @@ pt @@ d :
        e \in {EmptyDict, [expose |-> TRUE], [expose |-> FALSE]},
        pt \in {EmptyDict, [port |-> PortFor(name)]},
        d \in {EmptyDict, [domain |-> DomainFor(name)]}}

RoutingDecls == UNION {RoutingDeclsOf(name) : name \in {api_ws, web_ui, worker}}

\* Declarations of routed services that vary the label toggles.
LabelOptions ==
    {EmptyDict,
     [enable_retry |-> TRUE],
     [enable_rate_limit |-> TRUE, rate_limit |-> [average |-> 20]],
     [enable_monitoring |-> TRUE],
     [enable_retry |-> TRUE, enable_rate_limit |-> TRUE,
      enable_monitoring |-> TRUE,
      retry |-> [attempts |-> 5, interval |-> <<"250ms">>],
      metrics_path |-> <<"/stats">>, internal_port |-> 9100]}

LabelDeclsOf(name) ==
    {Base(name) @@ [port |-> PortFor(name)] @@ e @@ t :
        e \in {EmptyDict, [expose |-> TRUE], [expose |-> FALSE]},
        t \in LabelOptions}

LabelDecls == UNION {LabelDeclsOf(name) : name \in {web_ui, worker}}

\* Declarations that vary the environment, the declared secrets and the
\* secrets toggle.
DB_PASSWORD == <<"D","B","_","P","A","S","S","W","O","R","D">>
API_TOKEN == <<"A","P","I","_","T","O","K","E","N">>
LOG_LEVEL == <<"L","O","G","_","L","E","V","E","L">>
dev == <<"d","e","v">>

EnvironmentOptions ==
    {EmptyDict,
     [environment |-> << <<DB_PASSWORD, <<"abc">>>> >>],
     [environment |-> << <<LOG_LEVEL, <<"info">>>>, <<API_TOKEN, <<"t0">>>> >>]}

SecretOptions ==
    {EmptyDict,
     [secrets |-> << [kind |-> "str", text |-> <<"tls_cert">>] >>],
     [secrets |-> << [kind |-> "dict",
                      value |-> [source |-> <<"db_creds">>, mode |-> 288]] >>],
     [secrets |-> << [kind |-> "dict",
                      value |-> [name |-> <<"signing">>,
                                 target |-> <<"/etc/signing">>,
                                 uid |-> <<"1000">>, gid |-> <<"1000">>]] >>]}

SecretToggleOptions ==
    {EmptyDict, [use_secrets |-> TRUE], [use_secrets |-> TRUE, env |-> dev]}

SecretDeclsOf(name) ==
    {Base(name) @@ e @@ x @@ t :
        e \in EnvironmentOptions, x \in SecretOptions, t \in SecretToggleOptions}

\* api varies all three; the name with surrounding whitespace varies the
\* environment and the toggle; web_ui is a plain service placed around them.
SecretDecls ==
    SecretDeclsOf(api)
    \cup {d \in SecretDeclsOf(api_ws) : "secrets" \notin DOMAIN d}
    \cup {Base(web_ui)}

\* Declarations that vary the network list and network separation.
shared_cache == shared_ \o <<"c","a","c","h","e">>
my_shared_net == <<"m","y","-">> \o shared_ \o <<"n","e","t">>
app_db == <<"a","p","p">> \o _db
external_x == external_ \o <<"x">>
internal == <<"i","n","t","e","r","n","a","l">>

NetworkOptions ==
    {EmptyDict,
     [networks |-> <<>>],
     [networks |-> <<shared_cache>>],
     [networks |-> <<my_shared_net>>],
     [networks |-> <<app_db, external_x>>],
     [networks |-> <<internal>>]}

NetworkDeclsOf(name) ==
    {Base(name) @@ nets @@ sep :
        nets \in NetworkOptions,
        sep \in {EmptyDict, [enable_network_separation |-> TRUE]}}

NetworkDecls == UNION {NetworkDeclsOf(name) : name \in {api, Job}}

\* Declarations that override global defaults.
GlobalOptions ==
    {EmptyDict,
     [replicas |-> 3],
     [replicas |-> 5, volume_dir |-> <<"d","a","t","a">>],
     [replicas |-> 3, env |-> dev, fqdn |-> <<"corp.test">>,
      health_checks |-> FALSE, resource_limits |-> FALSE,
      volume_persistence |-> TRUE, deployment_strategy |-> <<"canary">>],
     [replicas |-> 5, enable_retry |-> TRUE, enable_rate_limit |-> TRUE,
      enable_monitoring |-> TRUE, enable_network_separation |-> TRUE,
      use_secrets |-> TRUE, enable_logging |-> FALSE,
      volume_dir |-> <<"/","m","n","t">>,
      deployment_strategy |-> <<"blue-green">>]}

GlobalDeclsOf(name) ==
    {Base(name) @@ [port |-> PortFor(name)] @@ g : g \in GlobalOptions}

GlobalDecls == UNION {GlobalDeclsOf(name) : name \in {api, web_ui, worker}}

\* Declarations that vary the resource override and the resource-limits
\* toggle; the name with surrounding whitespace also declares a network list.
ResourceOverride == [limits |-> [cpus |-> <<"4.0">>, memory |-> <<"8G">>]]

ResourceDeclsOf(name) ==
    {Base(name) @@ r @@ t :
        r \in {EmptyDict, [resources |-> ResourceOverride]},
        t \in {EmptyDict, [resource_limits |-> FALSE]}}

ResourceDecls ==
    ResourceDeclsOf(api) \cup ResourceDeclsOf(Job)
    \cup {Base(api_ws) @@ [resources |-> ResourceOverride],
          Base(api_ws) @@ [networks |-> <<internal>>]}

\* Declarations that vary the health URL, the health-check override and the
\* health-checks toggle.
HealthOverride ==
    [test |-> << <<"CMD">>, <<"true">> >>, interval |-> <<"5s">>]

HealthDeclsOf(name) ==
    {Base(name) @@ u @@ h @@ t :
        u \in {EmptyDict, [health_url |-> <<"/ping/">> \o name]},
        h \in {EmptyDict, [health_check |-> HealthOverride]},
        t \in {EmptyDict, [health_checks |-> FALSE]}}

HealthDecls == UNION {HealthDeclsOf(name) : name \in {api, web_ui}}

\* Declarations with a mandatory field missing, and the plain ones.
PlainDecls ==
    {Base(name) : name \in {api, api_ws, web_ui, worker, Job}}
    \cup {[service_name |-> api], [image |-> <<"img/x">>]}

Decls ==
    {RoutingDecls, LabelDecls, SecretDecls, NetworkDecls, GlobalDecls,
     ResourceDecls, HealthDecls, PlainDecls}

SeqsUpTo(S, n) == UNION {[1..m -> S] : m \in 0..n}

UniqueNames(arr) ==
    \A a, b \in 1..Len(arr) :
        ("service_name" \in DOMAIN arr[a] /\ "service_name" \in DOMAIN arr[b]
         /\ a # b) => arr[a].service_name # arr[b].service_name

\* An input is an array of declarations of one family, with no name twice.
Inputs ==
    UNION {{arr \in SeqsUpTo(family, MaxServices) : UniqueNames(arr)} :
               family \in Decls}

\* Command lines that name a configuration file and override its values.
web == <<"w","e","b">>

OverrideArgs ==
    {[DefaultArgs EXCEPT !.services = sv, !.images = im, !.domains = dm,
                         !.ports = pt, !.env = e, !.deployment_strategy = st,
                         !.enable_monitoring = t, !.use_secrets = t] :
        sv \in {None, web},
        im \in {NoneRec, [json |-> << <<web, <<"img/web">>>> >>]},
        dm \in {None, <<"w","w","w">>},
        pt \in {None, <<"9","0","9","0">>},
        e \in {prod, dev},
        st \in {rolling, <<"canary">>},
        t \in BOOLEAN} \ {DefaultArgs}

\* The files those command lines are combined with.
OverrideInputs ==
    {<< Base(api) @@ [port |-> PortFor(api)] >>,
     << Base(api) @@ [port |-> PortFor(api), env |-> <<"s","t","a","g","e">>,
                      deployment_strategy |-> <<"blue-green">>,
                      enable_monitoring |-> TRUE, use_secrets |-> TRUE] >>}

\* Command lines without a configuration file: each required option given
\* or not, one to three services, zero to two health URLs beyond the default.
CommandLineImages ==
    [json |-> << <<api, <<"img/api">>>>, <<web, <<"img/web">>>> >>]

CommandLineArgs ==
    {[DefaultArgs EXCEPT !.config_file = FALSE, !.services = sv, !.images = im,
                         !.domains = dm, !.fqdn = fq, !.ports = pt,
                         !.health_checks = hc, !.health_urls = hu,
                         !.volume_dir = vd, !.resource_limits = hc] :
        sv \in {None, <<>>, api \o <<",">> \o web,
                api \o <<",">> \o web \o <<",">> \o backend},
        im \in {NoneRec, CommandLineImages},
        dm \in {None, <<"a", ",", "b", ",", "c">>},
        fq \in {None, example_com},
        pt \in {None, <<"8","0",",","8","1",",","8","2">>},
        hc \in BOOLEAN,
        hu \in {<<"/health">>, <<"/ping">>, <<"/ping", ",", "/ready">>},
        vd \in {data_dir, <<"d","a","t","a">>}}

NotWritten == [written |-> FALSE]

(***************************************************************************)
(* The runs of main: with --config-file naming an array-format file (with  *)
(* or without overriding options), and with the options alone.             *)
(***************************************************************************)
Init ==
    /\ pc = "start"
    /\ \/ args = DefaultArgs /\ config_array \in Inputs
       \/ args \in OverrideArgs /\ config_array \in OverrideInputs
       \/ args \in CommandLineArgs /\ config_array = <<>>
    /\ k = 0
    /\ parsed = ParseLocals
    /\ config = EmptyDict
    /\ opts = EmptyDict
    /\ i = 0
    /\ compose = EmptyDict
    /\ output = NotWritten
    /\ error = ""
    /\ run = 1
    /\ previous = NotWritten

\* json.load of the file; the document is a list
LoadConfigFile ==
    /\ pc = "start"
    /\ args.config_file
    /\ pc' = "parse"
    /\ k' = 1
    /\ parsed' = ParseLocals
    /\ UNCHANGED <<args, config_array, config, opts, i, compose, output, error,
                   run, previous>>

\* main without --config-file: the values are taken from the options
ParseCommandLine ==
    /\ pc = "start"
    /\ ~args.config_file
    /\ IF CommandLineException(args) # ""
       THEN /\ pc' = "failed"
            /\ error' = CommandLineException(args)
            /\ UNCHANGED opts
       ELSE /\ opts' = CommandLineConfig(args)
            /\ pc' = "validate"
            /\ UNCHANGED error
    /\ UNCHANGED <<args, config_array, k, parsed, config, i, compose, output,
                   run, previous>>

\* one iteration of parse_array_config's loop
ParseService ==
    /\ pc = "parse"
    /\ k <= Len(config_array)
    /\ IF "service_name" \notin DOMAIN config_array[k]
       THEN /\ pc' = "failed"
            /\ error' = "ValueError: service_name"
            /\ UNCHANGED <<k, parsed>>
       ELSE IF "image" \notin DOMAIN config_array[k]
       THEN /\ pc' = "failed"
            /\ error' = "ValueError: image"
            /\ UNCHANGED <<k, parsed>>
       ELSE /\ parsed' = ParseOne(parsed, config_array[k])
            /\ k' = k + 1
            /\ UNCHANGED <<pc, error>>
    /\ UNCHANGED <<args, config_array, config, opts, i, compose, output, run,
                   previous>>

\* the end of parse_array_config: the returned dict
ParseReturn ==
    /\ pc = "parse"
    /\ k > Len(config_array)
    /\ \E ext_list \in ListOf(WithoutImplicit(parsed.external_networks)) :
           config' = ParseResult(parsed, ext_list)
    /\ pc' = "merge"
    /\ UNCHANGED <<args, config_array, k, parsed, opts, i, compose, output,
                   error, run, previous>>

\* main: values from the config with the command-line overrides
MergeOverrides ==
    /\ pc = "merge"
    /\ opts' = MergeConfig(args, config)
    /\ pc' = "validate"
    /\ UNCHANGED <<args, config_array, k, parsed, config, i, compose, output,
                   error, run, previous>>

\* main: "Validate inputs"
ValidateInputs ==
    /\ pc = "validate"
    /\ IF ValidationError(args, opts) # ""
       THEN /\ pc' = "failed"
            /\ error' = ValidationError(args, opts)
       ELSE /\ pc' = "generate"
            /\ UNCHANGED error
    /\ UNCHANGED <<args, config_array, k, parsed, config, opts, i, compose,
                   output, run, previous>>

\* generate_compose up to its loop
GenerateStart ==
    /\ pc = "generate"
    /\ compose' = ComposeSkeleton(opts)
    /\ i' = 1
    /\ pc' = "assemble"
    /\ UNCHANGED <<args, config_array, k, parsed, config, opts, output, error,
                   run, previous>>

\* A variant that flushes the manifest built so far when an iteration raises.
GenerateServiceFlushing ==
    /\ pc = "assemble"
    /\ i <= Len(opts.services)
    /\ IF RaisesKeyError(compose, opts, i)
       THEN /\ pc' = "failed"
            /\ error' = "KeyError: secrets"
            /\ output' = [written |-> TRUE, content |-> compose]
            /\ UNCHANGED <<i, compose>>
       ELSE /\ compose' = AssembleService(compose, opts, i)
            /\ i' = i + 1
            /\ UNCHANGED <<pc, error, output>>
    /\ UNCHANGED <<args, config_array, k, parsed, config, opts, run, previous>>

\* one iteration of generate_compose's loop
GenerateService ==
    /\ pc = "assemble"
    /\ i <= Len(opts.services)
    /\ IF RaisesKeyError(compose, opts, i)
       THEN /\ pc' = "failed"
            /\ error' = "KeyError: secrets"
            /\ UNCHANGED <<i, compose>>
       ELSE /\ compose' = AssembleService(compose, opts, i)
            /\ i' = i + 1
            /\ UNCHANGED <<pc, error>>
    /\ UNCHANGED <<args, config_array, k, parsed, config, opts, output, run,
                   previous>>

\* generate_compose returns
GenerateReturn ==
    /\ pc = "assemble"
    /\ i > Len(opts.services)
    /\ pc' = "write"
    /\ UNCHANGED <<args, config_array, k, parsed, config, opts, i, compose,
                   output, error, run, previous>>

\* main: open(args.output, 'w') and yaml.dump
WriteOutput ==
    /\ pc = "write"
    /\ output' = [written |-> TRUE, content |-> compose]
    /\ pc' = "done"
    /\ UNCHANGED <<args, config_array, k, parsed, config, opts, i, compose,
                   error, run, previous>>

\* The program is run a second time, in a new process, on the same file.
CompileAgain ==
    /\ pc = "done"
    /\ run = 1
    /\ run' = 2
    /\ previous' = output
    /\ pc' = "start"
    /\ k' = 0
    /\ parsed' = ParseLocals
    /\ config' = EmptyDict
    /\ opts' = EmptyDict
    /\ i' = 0
    /\ compose' = EmptyDict
    /\ output' = NotWritten
    /\ UNCHANGED <<args, config_array, error>>

Next ==
    \/ LoadConfigFile
    \/ ParseCommandLine
    \/ ParseService
    \/ ParseReturn
    \/ MergeOverrides
    \/ ValidateInputs
    \/ GenerateStart
    \/ GenerateService
    \/ GenerateReturn
    \/ WriteOutput
    \/ CompileAgain

Spec == Init /\ [][Next]_vars

(***************************************************************************)
(* The claims.                                                             *)
(***************************************************************************)
Finished == pc = "done"

\* A completed run on an array-format configuration file.
Done == Finished /\ args.config_file

Manifest == output.content

Positions == 1..Len(config_array)

\* Exposure as the specification resolves it: the explicit value when set,
\* otherwise false exactly for worker/job names.
DeclaredExposed(svc) ==
    IF "expose" \in DOMAIN svc THEN svc.expose
    ELSE ~LowerHasWorkerOrJob(svc.service_name)

NoEntry ==
    [image |-> <<>>, networks |-> <<>>, environment |-> <<>>,
     deploy |-> [replicas |-> 0, labels |-> <<>>, update_config |-> EmptyDict]]

\* The manifest's entry for a declared service.
EntryOf(svc) == DictGet(Manifest.services, Strip(svc.service_name), NoEntry)

LabelsOf(svc) == EntryOf(svc).deploy.labels

IsRoutingLabel(label) == label[1] = "traefik."

HasFullRoutingLabels(labels, name) ==
    /\ <<"traefik.", "enable=true">> \in Range(labels)
    /\ \E n \in 1..Len(labels) :
           StartsWith(labels[n], Router(name) \o <<".rule=Host(">>)
    /\ Router(name) \o <<".entrypoints=websecure">> \in Range(labels)
    /\ Router(name) \o <<".tls=true">> \in Range(labels)
    /\ Router(name) \o <<".tls.certresolver=cloudflare">> \in Range(labels)
    /\ \E n \in 1..Len(labels) :
           StartsWith(labels[n],
                      <<"traefik.", "http.services.">> \o name
                          \o <<".loadbalancer.server.port=">>)
    /\ Router(name) \o <<".service=">> \o name \in Range(labels)

\* C1: every service of an array input that has a port and resolves as
\* exposed carries the full routing label set in the manifest, wherever it
\* sits in the array and whatever the services before it declare.
C1_ExposedWithPortIsRouted ==
    Done =>
        \A n \in Positions :
            LET svc == config_array[n]
            IN  ("port" \in DOMAIN svc /\ DeclaredExposed(svc)) =>
                    HasFullRoutingLabels(LabelsOf(svc), Strip(svc.service_name))

SensitiveEntries(svc) ==
    IF "environment" \in DOMAIN svc
    THEN {e \in Range(svc.environment) : IsSensitiveKey(e[1])}
    ELSE {}

\* C2: with secrets enabled in the prod environment, every sensitive
\* environment key of a service is replaced by KEY_FILE=/run/secrets/<key>,
\* its plain KEY=value entry is absent, the service mounts
\* <service>_<key> at that path with mode 0400 and the top-level secrets
\* declare it.
C2_SensitiveEnvBecomesSecret ==
    (Done /\ opts.use_secrets /\ opts.env = prod) =>
        \A n \in Positions :
            \A e \in SensitiveEntries(config_array[n]) :
                LET svc == config_array[n]
                    name == svc.service_name
                    entry == EntryOf(svc)
                    path == <<"/run/secrets/">> \o Lower(e[1])
                IN  /\ e[1] \o <<"_FILE=">> \o path \in Range(entry.environment)
                    /\ e[1] \o <<"=">> \o e[2] \notin Range(entry.environment)
                    /\ [source |-> name \o <<"_">> \o Lower(e[1]),
                        target |-> path, mode |-> 256]
                           \in Range(Get(entry, "secrets", <<>>))
                    /\ DictGet(Get(Manifest, "secrets", <<>>),
                               name \o <<"_">> \o Lower(e[1]), NoneRec) = External

\* C3: the keys of the manifest's service map are exactly the declared
\* service names, each once.
C3_KeysAreDeclaredNames ==
    Done =>
        /\ Len(Manifest.services) = Len(config_array)
        /\ Range(DictKeys(Manifest.services))
               = {config_array[n].service_name : n \in Positions}

\* C4: a run that fails never writes the output; the output is written only
\* after normalisation, validation and generate_compose have all completed.
C4_NoOutputOnFailure ==
    /\ pc = "failed" => ~output.written
    /\ output.written =>
           /\ pc = "done"
           /\ error = ""
           /\ args.config_file => k > Len(config_array)
           /\ ValidationError(args, opts) = ""
           /\ i > Len(opts.services)
           /\ output.content = compose

C4_FailedDuringCompilation ==
    /\ pc = "failed"
    /\ error = "KeyError: secrets"
    /\ i > 1
    /\ ~output.written

\* C5: compiling the same input twice yields identical output, the order of
\* the top-level networks included.
C5_CompilingTwiceIsIdentical ==
    (run = 2 /\ Done) => output = previous

\* C6: a service whose exposure resolves false has no traefik.* label.
C6_NonExposedHasNoRoutingLabel ==
    Done =>
        \A n \in Positions :
            ~DeclaredExposed(config_array[n]) =>
                \A label \in Range(LabelsOf(config_array[n])) :
                    ~IsRoutingLabel(label)

\* C7: the normaliser and the assembler both resolve the exposure of every
\* service to its explicit value when set, and to "not a worker/job name"
\* otherwise.
C7_ExposureResolvedAlike ==
    Done =>
        \A n \in Positions :
            LET svc == config_array[n]
                name == Strip(svc.service_name)
            IN  /\ NormaliserExposed(svc) = DeclaredExposed(svc)
                /\ IsExposed(name, SvcConfig(opts, name)) = DeclaredExposed(svc)

\* The binding the specification gives a declared secret.
ExpectedBinding(secret) ==
    IF secret.kind = "str" THEN [short |-> secret.text]
    ELSE LET d == secret.value
             name == IF "source" \in DOMAIN d THEN d.source ELSE d.name
         IN  [key \in ({"source", "target"} \cup ({"mode", "uid", "gid"} \cap DOMAIN d)) |->
                 IF key = "source" THEN name
                 ELSE IF key = "target"
                      THEN IF "target" \in DOMAIN d THEN d.target
                           ELSE <<"/run/secrets/">> \o name
                 ELSE d[key]]

SecretNameOf(secret) ==
    IF secret.kind = "str" THEN secret.text
    ELSE IF "source" \in DOMAIN secret.value THEN secret.value.source
    ELSE secret.value.name

DeclaredSecrets(svc) ==
    IF "secrets" \in DOMAIN svc THEN Range(svc.secrets) ELSE {}

\* C8: every declared secret is bound as declared whatever the secrets
\* toggle is: compilation completes, the binding is in the service's
\* secrets list and the top-level secrets declare the name as external.
C8_DeclaredSecretsAreBound ==
    /\ error # "KeyError: secrets"
    /\ Done =>
           \A n \in Positions :
               \A secret \in DeclaredSecrets(config_array[n]) :
                   /\ ExpectedBinding(secret)
                          \in Range(Get(EntryOf(config_array[n]), "secrets", <<>>))
                   /\ DictGet(Get(Manifest, "secrets", <<>>),
                              SecretNameOf(secret), NoneRec) = External

\* The global defaults in effect once the first n services are processed.
RECURSIVE GlobalAfterPrefix(_)
GlobalAfterPrefix(n) ==
    IF n = 0 THEN DefaultGlobalConfig
    ELSE [key \in GlobalKeys |->
             IF key \in DOMAIN config_array[n] THEN config_array[n][key]
             ELSE GlobalAfterPrefix(n - 1)[key]]

\* The value of a global key set by the last service that sets it.
LastOverride(key) ==
    IF \E n \in Positions : key \in DOMAIN config_array[n]
    THEN config_array[CHOOSE n \in Positions :
                          /\ key \in DOMAIN config_array[n]
                          /\ \A m \in Positions :
                                 key \in DOMAIN config_array[m] => m <= n][key]
    ELSE DefaultGlobalConfig[key]

\* C9 as claimed: a service is resolved against the global defaults in
\* effect when it was processed, not against a later override.
C9_EarlierServicesKeepEarlierValue ==
    Done =>
        \A n \in Positions :
            /\ EntryOf(config_array[n]).deploy.replicas
                   = GlobalAfterPrefix(n).replicas
            /\ <<"ENVIRONMENT=">> \o GlobalAfterPrefix(n).env
                   \in Range(EntryOf(config_array[n]).environment)

\* C9 amended: the normaliser returns, for every global key, the value of
\* the last service that sets it (the default when none does), and with the
\* command line at its defaults every service of the manifest, before or
\* after that service, is resolved against that value.
C9_LastOverrideAppliesToAll ==
    ((args.config_file
      /\ pc \in {"merge", "validate", "generate", "assemble", "write", "done"}) =>
         \A key \in GlobalKeys : config[key] = LastOverride(key))
    /\ ((Done /\ args = DefaultArgs) =>
         \A n \in Positions :
             LET entry == EntryOf(config_array[n])
             IN  /\ entry.deploy.replicas = LastOverride("replicas")
                 /\ <<"ENVIRONMENT=">> \o LastOverride("env")
                        \in Range(entry.environment)
                 /\ entry.deploy.update_config
                        = generate_update_config(LastOverride("env"),
                                                 LastOverride("deployment_strategy"))
                 /\ ("healthcheck" \in DOMAIN entry) = LastOverride("health_checks"))

C9_LaterOverrideReachesEarlierService ==
    /\ Done
    /\ Len(config_array) = 2
    /\ "replicas" \notin DOMAIN config_array[1]
    /\ "replicas" \in DOMAIN config_array[2]
    /\ config_array[2].replicas # 1
    /\ EntryOf(config_array[1]).deploy.replicas = config_array[2].replicas

DeclaredNetworks ==
    UNION {IF "networks" \in DOMAIN config_array[n]
           THEN Range(config_array[n].networks) ELSE {} : n \in Positions}

\* C10: a declared network is in the external network set iff it starts
\* with 'shared-' or 'external-' or contains '-db', and is not one of the
\* three implicit names; each such name is declared once, as external, in
\* the top-level networks.
C10_ExternalSetByPrefix ==
    Done =>
        /\ Range(config.external_networks)
               = {net \in DeclaredNetworks :
                      /\ \/ StartsWith(net, shared_)
                         \/ StartsWith(net, external_)
                         \/ Contains(net, _db)
                      /\ net \notin {traefik_public, backend, database}}
        /\ \A net \in Range(config.external_networks) :
               /\ Cardinality({n \in 1..Len(Manifest.networks) :
                                   Manifest.networks[n][1] = net}) = 1
               /\ DictGet(Manifest.networks, net, NoneRec) = External

\* The port a service's probe addresses: its routed port, else its
\* internal_port, else 8080.
ProbePort(n) ==
    LET svc == Strip(opts.services[n])
        port == PortOf(opts, n, IsExposed(svc, SvcConfig(opts, svc)))
    IN  IF Truthy(port) THEN port
        ELSE Get(SvcConfig(opts, svc), "internal_port", <<"8","0","8","0">>)

\* The probe the specification gives the service at position n (index n - 1).
CycledProbe(n) ==
    [test |-> << <<"CMD">>, <<"curl">>, <<"-f">>,
                 <<"http://localhost:">> \o ProbePort(n)
                     \o opts.health_urls[((n - 1) % Len(opts.health_urls)) + 1] >>,
     interval |-> <<"30s">>, timeout |-> <<"10s">>, retries |-> 5,
     start_period |-> <<"60s">>]

\* C11: with health checks enabled, a service without a health-check
\* override at index i is probed at entry (i mod n) of the health-URL list of
\* length n, with interval 30s, timeout 10s, 5 retries, start period 60s;
\* with more services than URLs the list is cycled.
C11_HealthUrlCycles ==
    (Finished /\ opts.health_enabled /\ opts.health_urls # <<>>) =>
        \A n \in 1..Len(opts.services) :
            ~DictHas(opts.advanced_health, opts.services[n]) =>
                Get(DictGet(Manifest.services, Strip(opts.services[n]), NoEntry),
                    "healthcheck", NoneRec) = CycledProbe(n)

\* C12: every service of the manifest is a member of at least one network,
\* and a declared non-empty network list is the service's membership list,
\* unchanged.
C12_NetworksNonEmptyExplicitWins ==
    Done =>
        \A n \in Positions :
            LET svc == config_array[n]
            IN  /\ EntryOf(svc).networks # <<>>
                /\ ("networks" \in DOMAIN svc /\ svc.networks # <<>>) =>
                       EntryOf(svc).networks = svc.networks

ResourcesOf(svc) == Get(EntryOf(svc).deploy, "resources", NoneRec)

\* C13: a service with a resource override gets exactly that override as
\* its resources block, with resource limits enabled or disabled and
\* whatever its name; without an override a block (the name heuristic) is
\* present only when resource limits are enabled.
C13_ResourceOverrideIsExact ==
    Done =>
        \A n \in Positions :
            LET svc == config_array[n]
            IN  IF "resources" \in DOMAIN svc
                THEN ResourcesOf(svc) = svc.resources
                ELSE ResourcesOf(svc) # NoneRec => opts.resource_limits

\* The value a field takes under the override rule: the command line's
\* when it is not the default, the file's otherwise.
Overridden(given, default, from_file) ==
    IF given # default THEN given ELSE from_file

\* C14: with a configuration file, each command-line override (services,
\* images, domains, ports, environment name, feature toggles, deployment
\* strategy) wins over the file's value when it is not the default, and the
\* file's value is used when it is.
C14_CommandLineOverridesFile ==
    (args.config_file /\ pc \in {"validate", "generate", "assemble", "write", "done"}) =>
        /\ opts.services =
               IF args.services # None THEN Split(args.services) ELSE config.services
        /\ opts.images =
               IF args.images # NoneRec THEN args.images.json ELSE config.images
        /\ opts.domains =
               IF args.domains # None THEN Split(args.domains) ELSE config.domains
        /\ opts.ports =
               IF args.ports # None THEN Split(args.ports) ELSE config.ports
        /\ opts.env = Overridden(args.env, prod, config.env)
        /\ opts.deployment_strategy =
               Overridden(args.deployment_strategy, rolling, config.deployment_strategy)
        /\ opts.health_enabled =
               Overridden(args.health_checks, FALSE, config.health_checks)
        /\ opts.resource_limits =
               Overridden(args.resource_limits, FALSE, config.resource_limits)
        /\ opts.volume_persistence =
               Overridden(args.volume_persistence, FALSE, config.volume_persistence)
        /\ opts.enable_retry =
               Overridden(args.enable_retry, FALSE, config.enable_retry)
        /\ opts.enable_rate_limit =
               Overridden(args.enable_rate_limit, FALSE, config.enable_rate_limit)
        /\ opts.enable_monitoring =
               Overridden(args.enable_monitoring, FALSE, config.enable_monitoring)
        /\ opts.enable_network_separation =
               Overridden(args.enable_network_separation, FALSE,
                          config.enable_network_separation)
        /\ opts.use_secrets =
               Overridden(args.use_secrets, FALSE, config.use_secrets)
        /\ opts.enable_logging =
               Overridden(args.enable_logging, TRUE, config.enable_logging)

\* The diagnostics the program prints itself before exiting with status 1.
Diagnostics ==
    {"When not using --config-file, the following arguments are required",
     "Services are required",
     "Domains and ports are required for exposed services",
     "Services, domains, and ports are required",
     "volume_dir must be an absolute path"}

\* One of --services, --images, --domains, --fqdn, --ports is not given.
RequiredOptionMissing ==
    \/ args.services = None \/ args.images = NoneRec \/ args.domains = None
    \/ args.fqdn = None \/ args.ports = None

\* C15: without a configuration file, a run in which a required option is
\* missing or the volume directory is not absolute never gets past
\* validation, and when it ends it has ended with one of the program's own
\* diagnostics, not with an exception raised before validation.
C15_MissingOptionEndsInDiagnostic ==
    (~args.config_file
     /\ (RequiredOptionMissing \/ ~StartsWith(args.volume_dir, <<"/">>))) =>
        /\ pc \in {"start", "validate", "failed"}
        /\ pc = "failed" => error \in Diagnostics

\* The domain declared for a service: the explicit one, or the name with
\* underscores replaced by hyphens when only a port is given; the default
\* 'app' when the service declares neither.
OwnDomain(svc) ==
    IF "domain" \in DOMAIN svc THEN svc.domain
    ELSE IF "port" \in DOMAIN svc THEN ReplaceUnderscore(svc.service_name)
    ELSE <<"a","p","p">>

\* The port declared for a service; the default 8080 when it declares none.
OwnPort(svc) ==
    IF "port" \in DOMAIN svc THEN IntToStr(svc.port) ELSE <<"8","0","8","0">>

\* C16: in array-style input, whenever routing labels are emitted for a
\* service, its host rule names the domain declared for that service and its
\* loadbalancer.server.port label the port declared for that service, never
\* those of another service.
C16_RoutedWithOwnDomainAndPort ==
    (Done /\ args = DefaultArgs) =>
        \A n \in Positions :
            LET svc == config_array[n]
                name == Strip(svc.service_name)
                labels == LabelsOf(svc)
            IN  (\E m \in 1..Len(labels) : IsRoutingLabel(labels[m])) =>
                    /\ Router(name) \o <<".rule=Host(", BT>>
                           \o FqdnFull(OwnDomain(svc), opts.env, opts.fqdn)
                           \o <<BT, ")">> \in Range(labels)
                    /\ <<"traefik.", "http.services.">> \o name
                           \o <<".loadbalancer.server.port=">> \o OwnPort(svc)
                           \in Range(labels)

\* C17: every network named in the membership list of a service of the
\* manifest is declared in the manifest's top-level networks.
C17_MemberNetworksAreDeclared ==
    Finished =>
        \A n \in 1..Len(Manifest.services) :
            \A net \in Range(Manifest.services[n][2].networks) :
                DictHas(Manifest.networks, net)

\* A service that defaults to not exposed because of its name.
NotExposedByName(svc) ==
    "expose" \notin DOMAIN svc /\ LowerHasWorkerOrJob(svc.service_name)

\* C18: a service that defaults to not exposed because its name contains
\* 'worker' or 'job' in any letter case also joins 'backend' under network
\* separation (when it declares no network list) and, with no resource
\* override and resource limits enabled, gets 1.0 CPU / 1G memory.
C18_WorkerClassificationAgrees ==
    (Done /\ args = DefaultArgs) =>
        \A n \in Positions :
            LET svc == config_array[n]
            IN  NotExposedByName(svc) =>
                    /\ (opts.enable_network_separation /\ "networks" \notin DOMAIN svc)
                           => backend \in Range(EntryOf(svc).networks)
                    /\ ("resources" \notin DOMAIN svc /\ opts.resource_limits)
                           => ResourcesOf(svc) = Limits(<<"1.0">>, <<"1G">>)

====
